---------------------------- MODULE Spec2Model ----------------------------
(* A model of coalib/settings/SectionManager.py: the layered settings       *)
(* resolution (merge_section_dicts, load_config_file, _load_configuration), *)
(* the log sink / interactor selection (retrieve_logging_objects), the      *)
(* completion loop (_fill_settings), persistence (save_sections) and the    *)
(* target check (warn_nonexistent_targets), as driven by run().             *)
(*                                                                          *)
(* Python objects live in a heap: a SectionDict maps a section name to the  *)
(* identity of a Section object, so the in-place update and the move        *)
(* without copy of merge_section_dicts are the ones of the code.            *)
EXTENDS Integers, Sequences, FiniteSets, TLC

VARIABLES
    args,              \* the arg_list of every run() call still to come
    files,             \* the coafiles of the file system, by absolute path
    unwritable,        \* the paths at which a FilePrinter cannot be opened
    ip,                \* position inside run(): index into Steps, 0 outside
    aborted,           \* an exception left run()
    runs,              \* number of run() calls started
    heap,              \* Section objects by identity
    cli_sections, default_sections, user_sections, coafile_sections, sections,
    targets,           \* self.targets
    local_bears, global_bears,
    log_printer, interactor,
    nobj,              \* identities handed out to printers and interactors
    open,              \* closable printers / interactors not closed yet
    log,               \* messages logged during the current run()
    writes,            \* ConfWriter writes of the current run()
    visited,           \* sections _fill_settings has been through, this run
    filled,            \* <<section, setting>> stored by completion, this run
    hist               \* of the current run(): its arg_list, the layers as
                       \* loaded, the files found absent, the project
                       \* coafile's path, the log_type of each sink selection

vars == <<args, files, unwritable, ip, aborted, runs, heap, cli_sections,
          default_sections, user_sections, coafile_sections, sections,
          targets, local_bears, global_bears, log_printer, interactor, nobj,
          open, log, writes, visited, filled, hist>>

-----------------------------------------------------------------------------
(* Bounds and the value universe *)

MaxRuns == 2

Absent == "<absent>"
EmptyFn == [x \in {} |-> x]
NoId == <<0, "", "">>
NoObj == [id |-> 0, kind |-> "None", path |-> "", level |-> "", log_printer |-> 0]

SystemCoafile == "/sys/default.coafile"
UserCoafile == "/home/.coarc"

(* str.lower() on the strings of the universe *)
Lower(s) ==
    CASE s = "CONSOLE" -> "console"
      [] s = "None" -> "none"
      [] s = "/tmp/Out.log" -> "/tmp/out.log"
      [] s = "MySection" -> "mysection"
      [] s = "Nope" -> "nope"
      [] s = "True" -> "true"
      [] s = "Out.coafile" -> "out.coafile"
      [] s = "StyleBear" -> "stylebear"
      [] s = "ProjectBear" -> "projectbear"
      [] s = "NoSuchBear" -> "nosuchbear"
      [] OTHER -> s

(* str.upper() on the strings of the universe *)
Upper(s) ==
    CASE s = "debug" -> "DEBUG"
      [] s = "Error" -> "ERROR"
      [] OTHER -> s

(* os.path.abspath with the working directory /cwd *)
abspath(p) ==
    CASE p = ".coafile" -> "/cwd/.coafile"
      [] p = "proj.coafile" -> "/cwd/proj.coafile"
      [] p = "Out.coafile" -> "/cwd/Out.coafile"
      [] OTHER -> p

TRUE_STRINGS == {"1", "on", "y", "yes", "yeah", "sure", "true", "definitely", "yup", "right"}
FALSE_STRINGS == {"0", "off", "n", "no", "nope", "nah", "false", "wrong"}

(* bool(Setting): "true" / "false" for the boolean words, "ValueError" else *)
Setting_bool(v) ==
    IF Lower(v) \in TRUE_STRINGS THEN "true"
    ELSE IF Lower(v) \in FALSE_STRINGS THEN "false"
    ELSE "ValueError"

-----------------------------------------------------------------------------
(* Setting and Section *)

Setting(v, e) == [value |-> v, explicit |-> e]

(* Section(name): no settings, no defaults *)
Section == [contents |-> EmptyFn, defaults |-> NoId]

(* Section.update(other, ignore_defaults=True): a setting of other that was *)
(* explicitly set overwrites; a defaulted one only fills a gap.             *)
Section_update(self, other) ==
    [self EXCEPT !.contents =
        [k \in DOMAIN self.contents \cup DOMAIN other.contents |->
            IF k \in DOMAIN other.contents
               /\ (other.contents[k].explicit \/ k \notin DOMAIN self.contents)
            THEN other.contents[k]
            ELSE self.contents[k]]]

(* Section.get(key, default): own contents, then the defaults section, then *)
(* the supplied default; yields the value                                   *)
RECURSIVE Section_get(_, _, _, _)
Section_get(h, id, key, default) ==
    IF key \in DOMAIN h[id].contents THEN h[id].contents[key].value
    ELSE IF h[id].defaults # NoId THEN Section_get(h, h[id].defaults, key, default)
    ELSE default

(* the settings reachable from a section, own or through defaults *)
RECURSIVE Section_keys(_, _)
Section_keys(h, id) ==
    DOMAIN h[id].contents
      \cup (IF h[id].defaults # NoId THEN Section_keys(h, h[id].defaults) ELSE {})

-----------------------------------------------------------------------------
(* merge_section_dicts(lower, higher) on heap h: the heap and the dict      *)
(* returned, which is lower                                                 *)

merge_keep_lower(h, lower, higher) ==
    [heap |-> h,
     dict |-> [n \in DOMAIN lower \cup DOMAIN higher |->
                  IF n \in DOMAIN lower THEN lower[n] ELSE higher[n]]]

merge_replace(h, lower, higher) ==
    [heap |-> h,
     dict |-> [n \in DOMAIN lower \cup DOMAIN higher |->
                  IF n \in DOMAIN higher THEN higher[n] ELSE lower[n]]]

merge_section_dicts(h, lower, higher) ==
    [heap |-> [id \in DOMAIN h |->
                  IF \E n \in DOMAIN higher \cap DOMAIN lower : lower[n] = id
                  THEN LET n == CHOOSE m \in DOMAIN higher \cap DOMAIN lower : lower[m] = id
                       IN  Section_update(h[id], h[higher[n]])
                  ELSE h[id]],
     dict |-> [n \in DOMAIN lower \cup DOMAIN higher |->
                  IF n \in DOMAIN lower THEN lower[n] ELSE higher[n]]]

(* the contents of every section of a dict *)
Snapshot(h, d) == [n \in DOMAIN d |-> h[d[n]].contents]


-----------------------------------------------------------------------------
(* Parsers, printers and the other collaborators *)

(* a parsed source (name -> setting name -> Setting) as fresh Section       *)
(* objects <<run, layer, name>> on heap h                                   *)
Store(h, content, run, layer) ==
    LET new == {<<run, layer, n>> : n \in DOMAIN content}
    IN  [heap |-> [id \in DOMAIN h \cup new |->
                      IF id \in new
                      THEN [contents |-> content[id[3]], defaults |-> NoId]
                      ELSE h[id]],
         dict |-> [n \in DOMAIN content |-> <<run, layer, n>>]]

(* CliParser.reparse(arg_list): every given setting lands in "default" *)
CliParser_reparse(arg) ==
    [n \in {"default"} |-> [k \in DOMAIN arg |-> Setting(arg[k], TRUE)]]

FileState(fs, path) == IF path \in DOMAIN fs THEN fs[path].state ELSE "absent"

(* a log printer: its identity, class, file and log level *)
Printer(id, kind, path, level) ==
    [id |-> id, kind |-> kind, path |-> path, level |-> level, log_printer |-> 0]

(* LOG_LEVEL.str_dict *)
LOG_LEVEL == {"DEBUG", "WARNING", "ERROR"}

(* ClosableObject instances *)
IsClosable(obj) == obj.kind \in {"ConsolePrinter", "FilePrinter", "ConsoleInteractor"}

Warning(kind, arg, printer) == [kind |-> kind, arg |-> arg, to |-> printer.id]

(* StringConstants.coalib_bears_root joined with "**" *)
BearsRoot == "/coalib/bears/**"

(* the bears that exist, with directory, kind and required settings *)
AllBears ==
    {[name |-> "StyleBear", dir |-> BearsRoot, kind |-> "LOCAL", needs |-> {"tab_width"}],
     [name |-> "ProjectBear", dir |-> BearsRoot, kind |-> "GLOBAL", needs |-> {"tab_width"}]}

(* path_list(Setting) *)
path_list(v) == IF v = "" THEN {} ELSE {v}

(* collect_bears(bear_dirs, bears, kinds, log_printer): no name means all *)
collect_bears(bear_dirs, bears, kinds) ==
    {b \in AllBears : b.dir \in bear_dirs /\ b.kind \in kinds
                      /\ (bears = "" \/ Lower(b.name) = Lower(bears))}

(* SectionFiller.fill_section(bears): every required setting that the       *)
(* section reaches neither itself nor through its defaults is asked for; a  *)
(* console interactor answers, a null interactor does not.                  *)
Answer == "4"

Missing(h, id, bears) ==
    UNION {b.needs : b \in bears} \ Section_keys(h, id)

fill_section(h, id, bears, inter) ==
    IF inter.kind = "ConsoleInteractor"
    THEN [h EXCEPT ![id].contents =
            [k \in DOMAIN h[id].contents \cup Missing(h, id, bears) |->
                IF k \in DOMAIN h[id].contents THEN h[id].contents[k]
                ELSE Setting(Answer, TRUE)]]
    ELSE h

-----------------------------------------------------------------------------
(* load_config_file(filename, log_printer, silent) *)

load_config_file_loud(fs, filename, printer, silent) ==
    LET path == abspath(filename)
    IN  CASE FileState(fs, path) = "present" ->
                [result |-> "ok", content |-> fs[path].content, warn |-> <<>>]
          [] FileState(fs, path) = "malformed" ->
                [result |-> "error", content |-> EmptyFn, warn |-> <<>>]
          [] OTHER ->
                [result |-> "ok",
                 content |-> [n \in {"default"} |-> EmptyFn],
                 warn |-> <<Warning("coafile", path, printer)>>]

load_config_file_raise(fs, filename, printer, silent) ==
    LET path == abspath(filename)
    IN  IF FileState(fs, path) = "present"
        THEN [result |-> "ok", content |-> fs[path].content, warn |-> <<>>]
        ELSE [result |-> "error", content |-> EmptyFn, warn |-> <<>>]

load_config_file(fs, filename, printer, silent) ==
    LET path == abspath(filename)
    IN  CASE FileState(fs, path) = "present" ->
                [result |-> "ok", content |-> fs[path].content, warn |-> <<>>]
          [] FileState(fs, path) = "malformed" ->
                [result |-> "error", content |-> EmptyFn, warn |-> <<>>]
          [] OTHER ->
                [result |-> "ok",
                 content |-> [n \in {"default"} |-> EmptyFn],
                 warn |-> IF silent THEN <<>>
                          ELSE <<Warning("coafile", path, printer)>>]

-----------------------------------------------------------------------------
(* save_sections(sections): the ConfWriter writes it performs *)

save_sections_always(h, secs) ==
    <<[path |-> Section_get(h, secs["default"], "config", ".coafile"),
       data |-> Snapshot(h, secs)]>>

save_sections(h, secs) ==
    LET default_section == secs["default"]
        save == Setting_bool(Section_get(h, default_section, "save", "false"))
    IN  CASE save = "true" ->
                <<[path |-> Section_get(h, default_section, "config", ".coafile"),
                   data |-> Snapshot(h, secs)]>>
          [] save = "false" -> <<>>
          [] OTHER ->
                <<[path |-> Section_get(h, default_section, "save", ".coafile"),
                   data |-> Snapshot(h, secs)]>>

-----------------------------------------------------------------------------
(* warn_nonexistent_targets(targets, sections, log_printer) *)

RECURSIVE warn_nonexistent_targets(_, _, _)
warn_nonexistent_targets(tgts, secs, printer) ==
    IF tgts = <<>> THEN <<>>
    ELSE (IF Head(tgts) \notin DOMAIN secs
          THEN <<Warning("target", Head(tgts), printer)>>
          ELSE <<>>)
         \o warn_nonexistent_targets(Tail(tgts), secs, printer)

-----------------------------------------------------------------------------
(* retrieve_logging_objects(section), in its two halves: the closing of the *)
(* objects held, then the construction of the new ones                      *)

retrieve_close_nothing(inter, printer, op) == op

retrieve_close(inter, printer, op) ==
    (op \ (IF inter.kind # "None" /\ IsClosable(inter) THEN {inter.id} ELSE {}))
        \ (IF printer.kind # "None" /\ IsClosable(printer) THEN {printer.id} ELSE {})

retrieve_make(h, sid, unw, n) ==
    LET log_type == Lower(Section_get(h, sid, "log_type", "console"))
        output_type == Lower(Section_get(h, sid, "output", "console"))
        str_log_level == Upper(Section_get(h, sid, "log_level", ""))
        log_level == IF str_log_level \in LOG_LEVEL THEN str_log_level ELSE "WARNING"
        failed == log_type \notin {"console", "none"} /\ log_type \in unw
        printer ==
            CASE log_type = "console" -> Printer(n + 1, "ConsolePrinter", "", log_level)
              [] log_type = "none" -> Printer(n + 1, "NullPrinter", "", "")
              [] failed -> Printer(n + 1, "ConsolePrinter", "", log_level)
              [] OTHER -> Printer(n + 1, "FilePrinter", log_type, log_level)
    IN  [printer |-> printer,
         interactor |-> [id |-> n + 2,
                         kind |-> IF output_type = "none" THEN "NullInteractor"
                                  ELSE "ConsoleInteractor",
                         path |-> "",
                         level |-> "",
                         log_printer |-> printer.id],
         warn |-> IF failed THEN <<Warning("log_type", log_type, printer)>> ELSE <<>>]

-----------------------------------------------------------------------------
(* run(): the calls it makes, in order, and the steps each is made of *)

run_save_first ==
    <<"_load_configuration", "retrieve_logging_objects", "save_sections",
      "_fill_settings", "warn_nonexistent_targets">>

run_body ==
    <<"_load_configuration", "retrieve_logging_objects", "_fill_settings",
      "save_sections", "warn_nonexistent_targets">>

Expand(call) ==
    CASE call = "_load_configuration" ->
            <<"close_cli", "make_cli", "load_sys", "load_user", "load_proj",
              "merge1", "merge2", "merge3">>
      [] call = "retrieve_logging_objects" -> <<"close", "make">>
      [] call = "_fill_settings" -> <<"fill">>
      [] call = "save_sections" -> <<"save">>
      [] call = "warn_nonexistent_targets" -> <<"warn">>

Steps ==
    Expand(run_body[1]) \o Expand(run_body[2]) \o Expand(run_body[3])
        \o Expand(run_body[4]) \o Expand(run_body[5])

IndexOf(step) == CHOOSE i \in 1..Len(Steps) : Steps[i] = step

pc == IF aborted THEN "aborted"
      ELSE IF ip = 0 THEN (IF runs = 0 THEN "new" ELSE "done")
      ELSE Steps[ip]

At(step) == ~aborted /\ ip > 0 /\ Steps[ip] = step

Advance == ip' = IF ip = Len(Steps) THEN 0 ELSE ip + 1


-----------------------------------------------------------------------------
(* The inputs: argument lists, files, unwritable log paths *)

MkArg(t, l, s, c) ==
    LET keys == (IF t # <<>> THEN {"targets"} ELSE {})
                \cup (IF l # Absent THEN {"log_type"} ELSE {})
                \cup (IF s # Absent THEN {"save"} ELSE {})
                \cup (IF c # Absent THEN {"config"} ELSE {})
    IN  [k \in keys |-> CASE k = "targets" -> t
                          [] k = "log_type" -> l
                          [] k = "save" -> s
                          [] k = "config" -> c]

TargetsMenu == {<<>>, <<"MySection", "Nope">>, <<"Nope", "nope">>}
LogTypeMenu == {Absent, "CONSOLE", "None", "/tmp/Out.log", "/tmp/out.log"}
SaveMenu == {Absent, "True", "no", "Out.coafile"}
ConfigMenu == {Absent, "proj.coafile"}

RichArgs ==
    {MkArg(t, l, s, c) : t \in TargetsMenu, l \in LogTypeMenu,
                         s \in SaveMenu, c \in ConfigMenu}

ThinArgs == {MkArg(t, l, s, Absent) : t \in {<<>>, <<"Nope">>},
                                      l \in {Absent, "/tmp/out.log"},
                                      s \in {Absent, "True"}}

NoFile == [state |-> "absent", content |-> EmptyFn]
BadFile == [state |-> "malformed", content |-> EmptyFn]
File(content) == [state |-> "present", content |-> content]

SysFile ==
    File([n \in {"default"} |->
            ("log_type" :> Setting("None", TRUE)) @@ ("output" :> Setting("none", TRUE))])
UserFile ==
    File([n \in {"default"} |->
            ("save" :> Setting("yes", TRUE)) @@ ("log_level" :> Setting("debug", TRUE))])
ProjFile ==
    File([n \in {"default", "mysection"} |->
            IF n = "default" THEN ("bears" :> Setting("NoSuchBear", TRUE))
            ELSE ("bears" :> Setting("StyleBear", TRUE))])

OtherFile ==
    File([n \in {"default"} |-> ("bear_dirs" :> Setting("/my/bears", TRUE))])

Paths == {SystemCoafile, UserCoafile, "/cwd/.coafile", "/cwd/proj.coafile"}

RichFiles ==
    {[p \in Paths |-> CASE p = SystemCoafile -> s
                        [] p = UserCoafile -> u
                        [] p = "/cwd/.coafile" -> c
                        [] OTHER -> o] :
        s \in {NoFile, BadFile, SysFile}, u \in {NoFile, BadFile, UserFile},
        c \in {NoFile, BadFile, ProjFile}, o \in {NoFile, OtherFile}}

ThinFiles == {[p \in Paths |-> NoFile]}

LogPaths == {"/tmp/out.log"}

NoHist ==
    [arg |-> EmptyFn,
     loaded |-> [sys |-> EmptyFn, user |-> EmptyFn, proj |-> EmptyFn, cli |-> EmptyFn],
     absent |-> {},
     config |-> "",
     raws |-> <<>>]

(* SectionManager.__init__ *)
Constructed ==
    /\ ip = 0
    /\ aborted = FALSE
    /\ runs = 0
    /\ heap = EmptyFn
    /\ cli_sections = EmptyFn
    /\ default_sections = EmptyFn
    /\ user_sections = EmptyFn
    /\ coafile_sections = EmptyFn
    /\ sections = EmptyFn
    /\ targets = <<>>
    /\ local_bears = EmptyFn
    /\ global_bears = EmptyFn
    /\ log_printer = NoObj
    /\ interactor = NoObj
    /\ nobj = 0
    /\ open = {}
    /\ log = <<>>
    /\ writes = <<>>
    /\ visited = {}
    /\ filled = {}
    /\ hist = NoHist

(* one run() of a new SectionManager *)
InitSingle ==
    /\ args \in {<<a>> : a \in RichArgs}
    /\ files \in RichFiles
    /\ unwritable \in SUBSET LogPaths
    /\ Constructed

(* several run() calls of the same SectionManager *)
InitReuse ==
    /\ args \in UNION {[1..k -> ThinArgs] : k \in 2..MaxRuns}
    /\ files \in ThinFiles
    /\ unwritable \in SUBSET LogPaths
    /\ Constructed

Init == InitSingle \/ InitReuse

-----------------------------------------------------------------------------
(* run(arg_list) is entered: CliParser.reparse, line 170 *)
Call ==
    /\ ip = 0 /\ ~aborted /\ args # <<>>
    /\ LET st == Store(heap, CliParser_reparse(Head(args)), runs + 1, "cli")
       IN  /\ heap' = st.heap
           /\ cli_sections' = st.dict
    /\ args' = Tail(args)
    /\ runs' = runs + 1
    /\ ip' = 1
    /\ log' = <<>>
    /\ writes' = <<>>
    /\ visited' = {}
    /\ filled' = {}
    /\ hist' = [NoHist EXCEPT !.arg = Head(args)]
    /\ UNCHANGED <<files, unwritable, aborted, default_sections, user_sections,
                   coafile_sections, sections, targets, local_bears,
                   global_bears, log_printer, interactor, nobj, open>>

(* retrieve_logging_objects, lines 213-219 *)
Close ==
    /\ At("close_cli") \/ At("close")
    /\ open' = retrieve_close(interactor, log_printer, open)
    /\ Advance
    /\ UNCHANGED <<args, files, unwritable, aborted, runs, heap, cli_sections,
                   default_sections, user_sections, coafile_sections, sections,
                   targets, local_bears, global_bears, log_printer, interactor,
                   nobj, log, writes, visited, filled, hist>>

(* retrieve_logging_objects, lines 221-250 *)
Make ==
    /\ At("make_cli") \/ At("make")
    /\ LET sid == IF At("make_cli") THEN cli_sections["default"]
                  ELSE sections["default"]
           r == retrieve_make(heap, sid, unwritable, nobj)
       IN  /\ log_printer' = r.printer
           /\ interactor' = r.interactor
           /\ open' = open \cup {o.id : o \in {x \in {r.printer, r.interactor} : IsClosable(x)}}
           /\ log' = log \o r.warn
           /\ hist' = [hist EXCEPT !.raws = Append(@, IF "log_type" \in Section_keys(heap, sid)
                                                           THEN Section_get(heap, sid, "log_type", Absent)
                                                           ELSE Absent)]
    /\ nobj' = nobj + 2
    /\ Advance
    /\ UNCHANGED <<args, files, unwritable, aborted, runs, heap, cli_sections,
                   default_sections, user_sections, coafile_sections, sections,
                   targets, local_bears, global_bears, writes, visited, filled>>

(* lines 173-175: the targets leave the CLI default section *)
pop_targets(h, cid, tgts) ==
    LET c == h[cid].contents
        t == IF "targets" \in DOMAIN c THEN c["targets"].value ELSE <<>>
    IN  [heap |-> [h EXCEPT ![cid].contents = [k \in DOMAIN c \ {"targets"} |-> c[k]]],
         targets |-> tgts \o [i \in 1..Len(t) |-> Lower(t[i])]]

(* _load_configuration, lines 173-179 *)
LoadSys ==
    /\ At("load_sys")
    /\ LET p == pop_targets(heap, cli_sections["default"], targets)
           r == load_config_file(files, SystemCoafile, log_printer, FALSE)
           st == Store(p.heap, r.content, runs, "sys")
       IN  /\ targets' = p.targets
           /\ log' = log \o r.warn
           /\ IF r.result = "error"
              THEN /\ aborted' = TRUE
                   /\ heap' = p.heap
                   /\ UNCHANGED <<ip, default_sections, hist>>
              ELSE /\ heap' = st.heap
                   /\ default_sections' = st.dict
                   /\ hist' = [hist EXCEPT !.loaded.sys = r.content,
                                           !.loaded.cli = Snapshot(p.heap, cli_sections),
                                           !.absent = IF FileState(files, abspath(SystemCoafile)) = "absent"
                                                      THEN @ \cup {"sys"} ELSE @]
                   /\ Advance
                   /\ UNCHANGED aborted
    /\ UNCHANGED <<args, files, unwritable, runs, cli_sections, user_sections,
                   coafile_sections, sections, local_bears, global_bears,
                   log_printer, interactor, nobj, open, writes, visited, filled>>

(* _load_configuration, lines 181-184 *)
LoadUser ==
    /\ At("load_user")
    /\ LET r == load_config_file(files, UserCoafile, log_printer, TRUE)
           st == Store(heap, r.content, runs, "user")
       IN  /\ log' = log \o r.warn
           /\ IF r.result = "error"
              THEN /\ aborted' = TRUE
                   /\ UNCHANGED <<ip, heap, user_sections, hist>>
              ELSE /\ heap' = st.heap
                   /\ user_sections' = st.dict
                   /\ hist' = [hist EXCEPT !.loaded.user = r.content,
                                           !.absent = IF FileState(files, abspath(UserCoafile)) = "absent"
                                                      THEN @ \cup {"user"} ELSE @]
                   /\ Advance
                   /\ UNCHANGED aborted
    /\ UNCHANGED <<args, files, unwritable, runs, cli_sections, default_sections,
                   coafile_sections, sections, targets, local_bears, global_bears,
                   log_printer, interactor, nobj, open, writes, visited, filled>>

(* lines 186-191: the path of the project coafile *)
config_path(h, def, usr, cli) ==
    LET default_config == Section_get(h, def["default"], "config", ".coafile")
        user_config == Section_get(h, usr["default"], "config", default_config)
    IN  abspath(Section_get(h, cli["default"], "config", user_config))

(* _load_configuration, lines 186-193 *)
LoadProj ==
    /\ At("load_proj")
    /\ LET config == config_path(heap, default_sections, user_sections, cli_sections)
           r == load_config_file(files, config, log_printer, FALSE)
           st == Store(heap, r.content, runs, "proj")
       IN  /\ log' = log \o r.warn
           /\ IF r.result = "error"
              THEN /\ aborted' = TRUE
                   /\ hist' = [hist EXCEPT !.config = config]
                   /\ UNCHANGED <<ip, heap, coafile_sections>>
              ELSE /\ heap' = st.heap
                   /\ coafile_sections' = st.dict
                   /\ hist' = [hist EXCEPT !.loaded.proj = r.content,
                                           !.config = config,
                                           !.absent = IF FileState(files, config) = "absent"
                                                      THEN @ \cup {"proj"} ELSE @]
                   /\ Advance
                   /\ UNCHANGED aborted
    /\ UNCHANGED <<args, files, unwritable, runs, cli_sections, default_sections,
                   user_sections, sections, targets, local_bears, global_bears,
                   log_printer, interactor, nobj, open, writes, visited, filled>>

(* _load_configuration, lines 195-196; lower is changed in place, so        *)
(* default_sections and sections are the same dict from here on             *)
Merge1 ==
    /\ At("merge1")
    /\ LET m == merge_section_dicts(heap, default_sections, user_sections)
       IN  /\ heap' = m.heap
           /\ sections' = m.dict
           /\ default_sections' = m.dict
    /\ Advance
    /\ UNCHANGED <<args, files, unwritable, aborted, runs, cli_sections,
                   user_sections, coafile_sections, targets, local_bears,
                   global_bears, log_printer, interactor, nobj, open, log,
                   writes, visited, filled, hist>>

(* _load_configuration, lines 198-199 *)
Merge2 ==
    /\ At("merge2")
    /\ LET m == merge_section_dicts(heap, sections, coafile_sections)
       IN  /\ heap' = m.heap
           /\ sections' = m.dict
           /\ default_sections' = m.dict
    /\ Advance
    /\ UNCHANGED <<args, files, unwritable, aborted, runs, cli_sections,
                   user_sections, coafile_sections, targets, local_bears,
                   global_bears, log_printer, interactor, nobj, open, log,
                   writes, visited, filled, hist>>

(* lines 204-206: every section but "default" falls back on "default" *)
wire_defaults(h, secs) ==
    [id \in DOMAIN h |->
        IF \E n \in DOMAIN secs \ {"default"} : secs[n] = id
        THEN [h[id] EXCEPT !.defaults = secs["default"]]
        ELSE h[id]]

(* _load_configuration, lines 201-206 *)
Merge3 ==
    /\ At("merge3")
    /\ LET m == merge_section_dicts(heap, sections, cli_sections)
       IN  /\ heap' = wire_defaults(m.heap, m.dict)
           /\ sections' = m.dict
           /\ default_sections' = m.dict
    /\ Advance
    /\ UNCHANGED <<args, files, unwritable, aborted, runs, cli_sections,
                   user_sections, coafile_sections, targets, local_bears,
                   global_bears, log_printer, interactor, nobj, open, log,
                   writes, visited, filled, hist>>

Extend(f, k, v) == [x \in DOMAIN f \cup {k} |-> IF x = k THEN v ELSE f[x]]

(* _fill_settings, lines 253-274: one pass of the loop *)
Fill ==
    /\ At("fill")
    /\ \E n \in DOMAIN sections \ visited :
          LET sid == sections[n]
              bear_dirs == path_list(Section_get(heap, sid, "bear_dirs", "")) \cup {BearsRoot}
              bears == Section_get(heap, sid, "bears", "")
              local == collect_bears(bear_dirs, bears, {"LOCAL"})
              global == collect_bears(bear_dirs, bears, {"GLOBAL"})
              h == fill_section(heap, sid, local \cup global, interactor)
          IN  /\ heap' = h
              /\ local_bears' = Extend(local_bears, n, {b.name : b \in local})
              /\ global_bears' = Extend(global_bears, n, {b.name : b \in global})
              /\ filled' = filled \cup {<<n, k>> : k \in DOMAIN h[sid].contents \ DOMAIN heap[sid].contents}
              /\ visited' = visited \cup {n}
              /\ IF visited \cup {n} = DOMAIN sections THEN Advance ELSE UNCHANGED ip
    /\ UNCHANGED <<args, files, unwritable, aborted, runs, cli_sections,
                   default_sections, user_sections, coafile_sections, sections,
                   targets, log_printer, interactor, nobj, open, log, writes, hist>>

(* ConfWriter(path).write_sections(sections), lines 88-89: the file at the  *)
(* path holds the sections from then on                                     *)
RECURSIVE write_files(_, _)
write_files(fs, ws) ==
    IF ws = <<>> THEN fs
    ELSE LET path == abspath(Head(ws).path)
             fs1 == [p \in DOMAIN fs \cup {path} |->
                        IF p = path THEN File(Head(ws).data) ELSE fs[p]]
         IN  write_files(fs1, Tail(ws))

(* run, line 159 *)
Save ==
    /\ At("save")
    /\ LET ws == save_sections(heap, sections)
       IN  /\ writes' = writes \o ws
           /\ files' = write_files(files, ws)
    /\ Advance
    /\ UNCHANGED <<args, unwritable, aborted, runs, heap, cli_sections,
                   default_sections, user_sections, coafile_sections, sections,
                   targets, local_bears, global_bears, log_printer, interactor,
                   nobj, open, log, visited, filled, hist>>

(* run, line 160 *)
Warn ==
    /\ At("warn")
    /\ log' = log \o warn_nonexistent_targets(targets, sections, log_printer)
    /\ Advance
    /\ UNCHANGED <<args, files, unwritable, aborted, runs, heap, cli_sections,
                   default_sections, user_sections, coafile_sections, sections,
                   targets, local_bears, global_bears, log_printer, interactor,
                   nobj, open, writes, visited, filled, hist>>

Next ==
    \/ Call
    \/ Close
    \/ Make
    \/ LoadSys
    \/ LoadUser
    \/ LoadProj
    \/ Merge1
    \/ Merge2
    \/ Merge3
    \/ Fill
    \/ Save
    \/ Warn

Spec == Init /\ [][Next]_vars


-----------------------------------------------------------------------------
(* merge_section_dicts on its own: the four layers are drawn from a small   *)
(* universe of SectionDicts and the three merges of _load_configuration are *)
(* applied to them. Each layer writes values of its own, so that the value  *)
(* found after a merge names the layer it came from; the user layer may     *)
(* also repeat the system layer's value, so that a merge of two dicts of    *)
(* the same content occurs.                                                 *)

SectionMenu(vals) ==
    {EmptyFn} \cup {("bears" :> Setting(v, e)) : v \in vals, e \in BOOLEAN}

DictMenu(vals) ==
    {[n \in {"default"} |-> d] : d \in SectionMenu(vals)}
    \cup {[n \in {"default", "mysection"} |-> IF n = "default" THEN d ELSE m] :
            d \in SectionMenu(vals), m \in SectionMenu(vals)}

InitMerge ==
    /\ \E a \in DictMenu({"a"}), b \in DictMenu({"a", "b"}),
          c \in DictMenu({"c"}), d \in DictMenu({"d"}) :
          LET s1 == Store(EmptyFn, a, 1, "sys")
              s2 == Store(s1.heap, b, 1, "user")
              s3 == Store(s2.heap, c, 1, "proj")
              s4 == Store(s3.heap, d, 1, "cli")
          IN  /\ heap = s4.heap
              /\ default_sections = s1.dict
              /\ user_sections = s2.dict
              /\ coafile_sections = s3.dict
              /\ cli_sections = s4.dict
              /\ hist = [NoHist EXCEPT !.loaded =
                            [sys |-> a, user |-> b, proj |-> c, cli |-> d]]
    /\ args = <<>>
    /\ files \in ThinFiles
    /\ unwritable = {}
    /\ ip = IndexOf("merge1")
    /\ aborted = FALSE
    /\ runs = 1
    /\ sections = EmptyFn
    /\ targets = <<>>
    /\ local_bears = EmptyFn
    /\ global_bears = EmptyFn
    /\ log_printer = NoObj
    /\ interactor = NoObj
    /\ nobj = 0
    /\ open = {}
    /\ log = <<>>
    /\ writes = <<>>
    /\ visited = {}
    /\ filled = {}

NextMerge == Merge1 \/ Merge2 \/ Merge3

SpecMerge == InitMerge /\ [][NextMerge]_vars

-----------------------------------------------------------------------------
(* What the layers say about a setting *)

LayerOrder == <<"sys", "user", "proj", "cli">>

Has(i, n, k) ==
    LET l == hist.loaded[LayerOrder[i]]
    IN  n \in DOMAIN l /\ k \in DOMAIN l[n]

Max(S) == CHOOSE x \in S : \A y \in S : y <= x
Min(S) == CHOOSE x \in S : \A y \in S : x <= y

(* the layers 1..top leave setting k of section n as the merged sections    *)
(* hold it: from the highest layer that set it explicitly, else from the    *)
(* lowest layer that set it at all, else absent                             *)
Resolved(top, n, k) ==
    LET expl == {i \in 1..top : Has(i, n, k) /\ hist.loaded[LayerOrder[i]][n][k].explicit}
        any == {i \in 1..top : Has(i, n, k)}
        held == n \in DOMAIN sections /\ k \in DOMAIN heap[sections[n]].contents
    IN  IF expl # {}
        THEN held /\ heap[sections[n]].contents[k] = hist.loaded[LayerOrder[Max(expl)]][n][k]
        ELSE IF any # {}
        THEN held /\ heap[sections[n]].contents[k] = hist.loaded[LayerOrder[Min(any)]][n][k]
        ELSE ~held

SectionNames == {"default", "mysection"}
SettingNames ==
    {"bears", "bear_dirs", "log_type", "log_level", "output", "save", "config",
     "targets", "tab_width"}

(* C1: after the merges of three layers, and after the three merges of      *)
(* _load_configuration over its four layers, every setting of every section *)
(* holds the value of the highest layer that set it explicitly, else of the *)
(* lowest layer that set it at all, and is absent when no layer set it.     *)
C1_LayerPrecedence ==
    /\ pc = "merge3" => \A n \in SectionNames, k \in SettingNames : Resolved(3, n, k)
    /\ pc = "close" => \A n \in SectionNames, k \in SettingNames : Resolved(4, n, k)

(* C1 witness: all merges done where one setting was defaulted in two       *)
(* layers and explicit in a third, and a section came from a higher layer   *)
C1_Witness ==
    /\ pc = "close"
    /\ Has(1, "default", "bears") /\ ~hist.loaded.sys["default"]["bears"].explicit
    /\ Has(2, "default", "bears") /\ hist.loaded.user["default"]["bears"].explicit
    /\ Has(3, "default", "bears") /\ ~hist.loaded.proj["default"]["bears"].explicit
    /\ ~Has(4, "default", "bears")
    /\ ~Has(1, "mysection", "bears") /\ "mysection" \notin DOMAIN hist.loaded.sys
    /\ Has(2, "mysection", "bears") /\ ~hist.loaded.user["mysection"]["bears"].explicit
    /\ Has(3, "mysection", "bears") /\ ~hist.loaded.proj["mysection"]["bears"].explicit
    /\ heap[sections["mysection"]].contents["bears"].value = "b"

(* C2: merging a dict with one of the same content returns lower (the same  *)
(* Section objects) and leaves every section and setting as it was.         *)
C2_MergeIdempotent ==
    (pc = "merge2" /\ hist.loaded.user = hist.loaded.sys)
        => /\ DOMAIN sections = DOMAIN hist.loaded.sys
           /\ \A n \in DOMAIN sections : sections[n] = <<1, "sys", n>>
           /\ Snapshot(heap, sections) = hist.loaded.sys

(* C2 witness: a merge of two dicts of the same content, with two sections  *)
(* and settings in them                                                     *)
C2_Witness ==
    /\ pc = "merge2"
    /\ hist.loaded.user = hist.loaded.sys
    /\ DOMAIN hist.loaded.sys = {"default", "mysection"}
    /\ "bears" \in DOMAIN hist.loaded.sys["default"]
    /\ "bears" \in DOMAIN hist.loaded.sys["mysection"]


-----------------------------------------------------------------------------
(* The pipeline's claims *)

CountLog(kind, arg) ==
    Cardinality({i \in DOMAIN log : log[i].kind = kind /\ log[i].arg = arg})

Occurrences(seq, x) == Cardinality({i \in DOMAIN seq : seq[i] = x})

EmptyDefault(d) ==
    /\ DOMAIN d = {"default"}
    /\ DOMAIN heap[d["default"]].contents = {}

(* C3: a file that does not exist loads as a single "default" section       *)
(* without settings; the absent system file and the absent project coafile  *)
(* are each warned about once, the absent user file never, and a file that  *)
(* exists is not warned about.                                              *)
C3_AbsentFile ==
    /\ (pc = "load_user" /\ "sys" \in hist.absent) => EmptyDefault(default_sections)
    /\ (pc = "load_proj" /\ "user" \in hist.absent) => EmptyDefault(user_sections)
    /\ pc = "merge1" =>
          /\ "proj" \in hist.absent => EmptyDefault(coafile_sections)
          /\ CountLog("coafile", SystemCoafile) = (IF "sys" \in hist.absent THEN 1 ELSE 0)
          /\ CountLog("coafile", UserCoafile) = 0
          /\ CountLog("coafile", hist.config) = (IF "proj" \in hist.absent THEN 1 ELSE 0)

(* C3 witness: the three loads are done and none of the files existed *)
C3_Witness ==
    /\ pc = "merge1"
    /\ hist.absent = {"sys", "user", "proj"}
    /\ Len(log) = 2

LastRaw == hist.raws[Len(hist.raws)]

SinkWarnings == {i \in DOMAIN log : log[i].kind = "log_type" /\ log[i].to = log_printer.id}

(* C4: right after a sink selection: log_type "console" in any case (also   *)
(* the default) gives a console sink, "none" a null sink, any other value a *)
(* file sink at that very path and no warning; if the file sink cannot be   *)
(* opened the sink is a console sink and one warning names the log_type     *)
(* value.                                                                   *)
C4_SinkSelection ==
    (pc \in {"load_sys", "fill"}) =>
        LET raw == IF LastRaw = Absent THEN "console" ELSE LastRaw
        IN  CASE Lower(raw) = "console" ->
                    log_printer.kind = "ConsolePrinter" /\ SinkWarnings = {}
              [] Lower(raw) = "none" ->
                    log_printer.kind = "NullPrinter" /\ SinkWarnings = {}
              [] OTHER ->
                    \/ /\ log_printer.kind = "FilePrinter"
                       /\ log_printer.path = raw
                       /\ SinkWarnings = {}
                    \/ /\ log_printer.kind = "ConsolePrinter"
                       /\ Cardinality(SinkWarnings) = 1
                       /\ \A i \in SinkWarnings : log[i].arg = raw

DefaultContents == heap[sections["default"]].contents

SaveValue == IF "save" \in DOMAIN DefaultContents THEN DefaultContents["save"].value ELSE "false"

ConfigValue == IF "config" \in DOMAIN DefaultContents THEN DefaultContents["config"].value ELSE ".coafile"

(* C5: once save_sections has run: nothing is written if the default        *)
(* section's save (default "false") is a false word; the merged sections    *)
(* are written to the path in config (".coafile" if unset) if it is a true  *)
(* word; they are written to the path save itself names if it is neither.   *)
C5_SaveDecision ==
    pc = "warn" =>
        CASE Lower(SaveValue) \in FALSE_STRINGS -> writes = <<>>
          [] Lower(SaveValue) \in TRUE_STRINGS ->
                writes = <<[path |-> ConfigValue, data |-> Snapshot(heap, sections)]>>
          [] OTHER ->
                writes = <<[path |-> SaveValue, data |-> Snapshot(heap, sections)]>>

(* C5 witness: save named a path and the sections went there *)
C5_Witness ==
    /\ pc = "warn"
    /\ SaveValue = "Out.coafile"
    /\ Len(writes) = 1 /\ writes[1].path = "Out.coafile"

(* C6: nothing is written before every section has been through discovery  *)
(* and completion; a run whose save enables persistence has written exactly *)
(* once when it returns, and what it wrote holds every setting completion   *)
(* stored; a run whose save is a false word has written nothing.            *)
C6_WriteOnceAfterFill ==
    /\ pc \in {"close_cli", "make_cli", "load_sys", "load_user", "load_proj",
               "merge1", "merge2", "merge3", "close", "make", "fill", "save"}
          => writes = <<>>
    /\ pc = "done" =>
          IF Lower(SaveValue) \in FALSE_STRINGS
          THEN writes = <<>>
          ELSE /\ Len(writes) = 1
               /\ visited = DOMAIN sections
               /\ writes[1].data = Snapshot(heap, sections)
               /\ \A f \in filled : f[2] \in DOMAIN writes[1].data[f[1]]

(* C6 witness: a run returned that completed a setting and wrote it *)
C6_Witness ==
    /\ pc = "done"
    /\ Len(writes) = 1
    /\ <<"mysection", "tab_width">> \in filled
    /\ "tab_width" \in DOMAIN writes[1].data["mysection"]

CliTargets ==
    IF "targets" \in DOMAIN hist.arg
    THEN [i \in DOMAIN hist.arg["targets"] |-> Lower(hist.arg["targets"][i])]
    ELSE <<>>

AfterLoad == pc \in {"close", "make", "fill", "save", "warn", "done"}

(* C7: after _load_configuration the targets list holds the lower-cased     *)
(* targets of the command line in their order, none if none was given; the  *)
(* CLI default section holds no targets setting, nor does the merged        *)
(* default section, nor anything written.                                   *)
C7_TargetsCaptured ==
    AfterLoad =>
        /\ targets = CliTargets
        /\ "targets" \notin DOMAIN heap[cli_sections["default"]].contents
        /\ "targets" \notin DOMAIN DefaultContents
        /\ \A i \in DOMAIN writes : "targets" \notin DOMAIN writes[i].data["default"]

TargetNames == {"default", "mysection", "nope", "MySection", "Nope"}

(* C8: when run() returns, every target requested on its command line that *)
(* names no section of the merged sections has been warned about once (once *)
(* for each time it was given), no warning names a target that is a section *)
(* or that was not requested, and the sections come with the local and      *)
(* global bears of each of them.                                            *)
C8_TargetWarnings ==
    pc = "done" =>
        /\ \A t \in TargetNames :
              CountLog("target", t) =
                  (IF t \in DOMAIN sections THEN 0 ELSE Occurrences(CliTargets, t))
        /\ DOMAIN sections \subseteq DOMAIN local_bears
        /\ DOMAIN sections \subseteq DOMAIN global_bears
        /\ visited = DOMAIN sections

SinkFailed(raw) ==
    raw # Absent /\ Lower(raw) \notin {"console", "none"} /\ Lower(raw) \in unwritable

SaveMalformed ==
    Lower(SaveValue) \notin TRUE_STRINGS /\ Lower(SaveValue) \notin FALSE_STRINGS

(* the file the aborted load was reading is malformed *)
Fatal ==
    LET path == CASE Steps[ip] = "load_sys" -> abspath(SystemCoafile)
                  [] Steps[ip] = "load_user" -> abspath(UserCoafile)
                  [] Steps[ip] = "load_proj" -> hist.config
                  [] OTHER -> ""
    IN  FileState(files, path) = "malformed"

WarnedCases ==
    /\ "sys" \in hist.absent => CountLog("coafile", SystemCoafile) >= 1
    /\ "proj" \in hist.absent => CountLog("coafile", hist.config) >= 1
    /\ \A i \in DOMAIN hist.raws :
          SinkFailed(hist.raws[i]) => CountLog("log_type", Lower(hist.raws[i])) >= 1
    /\ \A i \in DOMAIN targets :
          targets[i] \notin DOMAIN sections => CountLog("target", targets[i]) >= 1

(* C9 as stated: every recoverable case, the malformed save value among     *)
(* them, has produced a warning when run() returns, and none aborts run().  *)
C9_AllRecoverableWarn ==
    /\ pc = "done" =>
          /\ WarnedCases
          /\ SaveMalformed => \E i \in DOMAIN log : log[i].arg = SaveValue
    /\ aborted => Fatal

(* C9 amended: an absent system or project coafile, a log sink that cannot  *)
(* be constructed and a target without section have each produced a warning *)
(* when run() returns; a malformed save value produces no warning and is    *)
(* used as the path written to; none of these cases aborts run().           *)
C9_RecoverableContinue ==
    /\ pc = "done" =>
          /\ WarnedCases
          /\ SaveMalformed =>
                /\ \A i \in DOMAIN log : log[i].arg # SaveValue
                /\ Len(writes) = 1 /\ writes[1].path = SaveValue
    /\ aborted => Fatal

(* C9 witness: a run returned in which the system and the project coafile   *)
(* were absent, the log file could not be opened, save named a path and a   *)
(* target named no section                                                  *)
C9_Witness ==
    /\ pc = "done"
    /\ {"sys", "proj"} \subseteq hist.absent
    /\ \E i \in DOMAIN hist.raws : SinkFailed(hist.raws[i])
    /\ SaveMalformed
    /\ \E i \in DOMAIN targets : targets[i] \notin DOMAIN sections

OpenPrinters == {i \in open : i % 2 = 1}
OpenInteractors == {i \in open : i % 2 = 0}

(* C10: at every point at most one closable log sink and one closable       *)
(* interactor are unclosed; the ones held are closed before the next ones   *)
(* are constructed; when run() returns the unclosed ones are the returned   *)
(* ones.                                                                    *)
C10_CloseBeforeReplace ==
    /\ Cardinality(OpenPrinters) <= 1
    /\ Cardinality(OpenInteractors) <= 1
    /\ pc \in {"make_cli", "make"} => open = {}
    /\ pc = "done" =>
          open = {o.id : o \in {x \in {log_printer, interactor} : IsClosable(x)}}

(* C10 witness: a second run() of the same manager returned, with a file    *)
(* sink in the first run and in the second                                  *)
C10_Witness ==
    /\ pc = "done"
    /\ runs = 2
    /\ nobj = 8
    /\ log_printer.kind = "FilePrinter"
    /\ open = {log_printer.id, interactor.id}

=============================================================================
